---- MODULE Spec2Model ----
(***************************************************************************)
(* Model of the PerformanceMetrics node of                                 *)
(* cart_pole_optimal_control/performance_metrics.py.                       *)
(*                                                                         *)
(* Units.  The node stores Python floats; the model stores integers in a   *)
(* fixed unit per quantity, so that every threshold of the code is an      *)
(* integer and every comparison of the code is exact:                      *)
(*   simulation time      microseconds         (1.0 s    = 1000000)        *)
(*   cart position        tenths of a metre    (2.5 m    = 25)             *)
(*   cart velocity        hundredths of m/s    (0.05 m/s = 5)              *)
(*   pole angle           hundredths of a rad                              *)
(*   forces               newtons                                          *)
(* Python's None is the empty sequence, a present value x is <<x>>.        *)
(* A quotient that the code leaves as a float (a mean, a rate) is kept as  *)
(* the pair [num, den]; den = 0 with num > 0 is numpy's +inf.              *)
(***************************************************************************)
EXTENDS Integers, Sequences, FiniteSets, TLC

VARIABLES
    pole_angles,          \* self.pole_angles
    cart_positions,       \* self.cart_positions
    control_forces,       \* self.control_forces
    recovery_times,       \* self.recovery_times
    control_timestamps,   \* self.control_timestamps
    last_earthquake_time, \* self.last_earthquake_time (None or a time)
    last_stable_time,     \* self.last_stable_time (None or a time)
    simulation_time,      \* self.simulation_time
    log,                  \* the lines the last dispatched callback gave to get_logger()
    fault,                \* the exception that escaped the last callback, or "none"
    ev,                   \* the kind of callback rclpy.spin dispatched last
    quake_count,          \* observer: above-threshold disturbances delivered so far
    window_quakes,        \* observer: clock readings at the above-threshold
                          \* disturbances delivered since the last settling update
    settled,              \* observer: no disturbance awaits a settling update
    reports,              \* observer: the angle, force and efficiency figures
                          \* of the last two reports logged, oldest first
    frames                \* the callbacks rclpy.spin has entered and not yet
                          \* left, each with its message and the line it is at

store == <<pole_angles, cart_positions, control_forces, recovery_times,
           control_timestamps, last_earthquake_time, last_stable_time,
           simulation_time>>

vars == <<pole_angles, cart_positions, control_forces, recovery_times,
          control_timestamps, last_earthquake_time, last_stable_time,
          simulation_time, log, fault, ev, quake_count, window_quakes, settled,
          reports, frames>>

observer == <<quake_count, window_quakes, settled, reports>>

-----------------------------------------------------------------------------
(* Bounds of the model *)

MaxSamples == 2       \* valid /joint_states messages delivered under Spec
MaxForces == 2        \* force commands delivered under Spec
MaxQuakes == 2        \* above-threshold disturbances delivered
MaxLongSamples == 11  \* samples per series under SpecLong (one past the guard)

(* Program constants, in the units above *)

MinSamples == 10           \* len(...) < 10
PositionLimit == 25        \* abs(cart_pos) > 2.5
StabilityThreshold == 5    \* cart_vel < 0.05
EarthquakeThreshold == 5   \* abs(msg.data) > 5.0
max_allowed_force == 250   \* max_allowed_force = 250.0
RateDivisor == 4           \* avg_control_rate/4
RateLow == 40              \* 40 <= ...
RateHigh == 70             \* ... <= 70
UsPerSec == 1000000        \* seconds of the clock message, in microseconds
NanosPerUs == 1000         \* nanoseconds of the clock message per microsecond

-----------------------------------------------------------------------------
(* Python values and built-ins *)

None == <<>>
Some(x) == <<x>>

Abs(x) == IF x < 0 THEN -x ELSE x

\* list.index(x) succeeds exactly when x is in the list
Contains(list, x) == \E i \in 1..Len(list) : list[i] = x

\* list.index(x): the position of the first occurrence (1-based here)
Index(list, x) ==
    CHOOSE i \in 1..Len(list) :
        list[i] = x /\ \A j \in 1..(i - 1) : list[j] # x

RECURSIVE SeqSum(_)
SeqSum(s) == IF s = <<>> THEN 0 ELSE s[1] + SeqSum(Tail(s))

RECURSIVE SeqMax(_)
SeqMax(s) ==
    IF Len(s) = 1 THEN s[1]
    ELSE LET m == SeqMax(Tail(s)) IN IF s[1] >= m THEN s[1] ELSE m

Min2(a, b) == IF a <= b THEN a ELSE b
Max2(a, b) == IF a >= b THEN a ELSE b

\* np.diff
Diff(s) == [i \in 1..(Len(s) - 1) |-> s[i + 1] - s[i]]

\* np.square
Square(s) == [i \in 1..Len(s) |-> s[i] * s[i]]

\* np.mean of a series of integers, as the quotient sum / count
Mean(s) == [num |-> SeqSum(s), den |-> Len(s)]

\* np.sqrt of a quotient of non-negative integers, rounded down to the unit
Sqrt(q) ==
    LET x == q.num \div q.den
    IN  CHOOSE r \in 0..x : r * r <= x /\ (r + 1) * (r + 1) > x

\* 1.0 / q for a mean interval q in microseconds: a rate in 1/second
Inverse(q) == [num |-> q.den * UsPerSec, den |-> q.num]

\* q / k
Over(q, k) == [num |-> q.num, den |-> q.den * k]

\* k <= q and q <= k on floats, +inf and -inf included (nan compares False)
LeqQ(k, q) ==
    \/ q.den > 0 /\ k * q.den <= q.num
    \/ q.den < 0 /\ k * q.den >= q.num
    \/ q.den = 0 /\ q.num > 0
QLeq(q, k) ==
    \/ q.den > 0 /\ q.num <= k * q.den
    \/ q.den < 0 /\ q.num >= k * q.den
    \/ q.den = 0 /\ q.num < 0

-----------------------------------------------------------------------------
(* Log lines: get_logger().warn(...) / .info(...) *)

Line(level, text, args) == [level |-> level, text |-> text, args |-> args]

Logged(text) == \E i \in 1..Len(log) : log[i].text = text
LineOf(text) == log[CHOOSE i \in 1..Len(log) : log[i].text = text]

-----------------------------------------------------------------------------
Init ==
    /\ pole_angles = <<>>
    /\ cart_positions = <<>>
    /\ control_forces = <<>>
    /\ recovery_times = <<>>
    /\ control_timestamps = <<>>
    /\ last_earthquake_time = None
    /\ last_stable_time = None
    /\ simulation_time = 0
    /\ log = <<Line("info", "Performance Metrics Node Started", <<>>)>>
    /\ fault = "none"
    /\ ev = "init"
    /\ quake_count = 0
    /\ window_quakes = <<>>
    /\ settled = TRUE
    /\ reports = <<>>
    /\ frames = <<>>

-----------------------------------------------------------------------------
(* joint_state_callback *)

HasJoints(msg) ==
    Contains(msg.name, "cart_to_base") /\ Contains(msg.name, "pole_joint")

PositionWarning(cart_pos) ==
    IF Abs(cart_pos) > PositionLimit
    THEN <<Line("warn", "Cart exceeded position limit", <<cart_pos>>)>>
    ELSE <<>>

\* Faulty variant of Recovered: a speed of exactly 0.05 counts as stable
Recovered_Inclusive(cart_vel) ==
    last_earthquake_time # None /\ cart_vel <= StabilityThreshold

Recovered(cart_vel) ==
    last_earthquake_time # None /\ cart_vel < StabilityThreshold

\* Faulty variant of DropJointState: the handler also resets the window
DropJointState_ResetWindow ==
    /\ log' = <<Line("warn", "Joint names not found", <<>>)>>
    /\ fault' = "none"
    /\ last_earthquake_time' = None
    /\ UNCHANGED <<pole_angles, cart_positions, control_forces, recovery_times,
                   control_timestamps, last_stable_time, simulation_time>>

\* except ValueError: the message is dropped
DropJointState ==
    /\ log' = <<Line("warn", "Joint names not found", <<>>)>>
    /\ fault' = "none"
    /\ UNCHANGED store

\* Faulty variant of StoredAngle: the angle stored with its sign
StoredAngle_Signed(pole_angle) == pole_angle

\* self.pole_angles.append(abs(pole_angle))
StoredAngle(pole_angle) == Abs(pole_angle)

\* Faulty variant of RecoveryTime: the operands exchanged
RecoveryTime_Reversed == last_earthquake_time[1] - simulation_time

\* self.last_stable_time - self.last_earthquake_time, last_stable_time being
\* the simulation time just taken
RecoveryTime == simulation_time - last_earthquake_time[1]

\* Faulty variant of RecordRecovery: only the latest recovery is kept
RecordRecovery_KeepLatest(cart_pos) ==
    /\ last_stable_time' = Some(simulation_time)
    /\ recovery_times' = <<RecoveryTime>>
    /\ last_earthquake_time' = None
    /\ log' = PositionWarning(cart_pos) \o
              <<Line("info", "Recovery Time", <<RecoveryTime>>)>>

\* Faulty variant of RecordRecovery: the window stays live
RecordRecovery_KeepWindow(cart_pos) ==
    /\ last_stable_time' = Some(simulation_time)
    /\ recovery_times' = Append(recovery_times, RecoveryTime)
    /\ last_earthquake_time' = last_earthquake_time
    /\ log' = PositionWarning(cart_pos) \o
              <<Line("info", "Recovery Time", <<RecoveryTime>>)>>

\* the body of the innermost if: one recovery recorded, the window reset
RecordRecovery(cart_pos) ==
    /\ last_stable_time' = Some(simulation_time)
    /\ recovery_times' = Append(recovery_times, RecoveryTime)
    /\ last_earthquake_time' = None
    /\ log' = PositionWarning(cart_pos) \o
              <<Line("info", "Recovery Time", <<RecoveryTime>>)>>

\* Faulty variant of joint_state_callback: it returns after the position
\* warning
joint_state_callback_ReturnOnLimit(msg) ==
    IF ~HasJoints(msg)
    THEN DropJointState
    ELSE LET cart_idx == Index(msg.name, "cart_to_base")
             pole_idx == Index(msg.name, "pole_joint")
             cart_pos == msg.position[cart_idx]
             pole_angle == msg.position[pole_idx]
             cart_vel == Abs(msg.velocity[cart_idx])
         IN  /\ cart_positions' = Append(cart_positions, cart_pos)
             /\ pole_angles' = Append(pole_angles, StoredAngle(pole_angle))
             /\ IF Recovered(cart_vel) /\ PositionWarning(cart_pos) = <<>>
                THEN RecordRecovery(cart_pos)
                ELSE /\ log' = PositionWarning(cart_pos)
                     /\ UNCHANGED <<last_stable_time, recovery_times,
                                    last_earthquake_time>>
             /\ fault' = "none"
             /\ UNCHANGED <<control_forces, control_timestamps, simulation_time>>

joint_state_callback(msg) ==
    IF ~HasJoints(msg)
    THEN DropJointState
    ELSE LET cart_idx == Index(msg.name, "cart_to_base")
             pole_idx == Index(msg.name, "pole_joint")
             cart_pos == msg.position[cart_idx]
             pole_angle == msg.position[pole_idx]
             cart_vel == Abs(msg.velocity[cart_idx])
         IN  /\ cart_positions' = Append(cart_positions, cart_pos)
             /\ pole_angles' = Append(pole_angles, StoredAngle(pole_angle))
             /\ IF Recovered(cart_vel)
                THEN RecordRecovery(cart_pos)
                ELSE /\ log' = PositionWarning(cart_pos)
                     /\ UNCHANGED <<last_stable_time, recovery_times,
                                    last_earthquake_time>>
             /\ fault' = "none"
             /\ UNCHANGED <<control_forces, control_timestamps, simulation_time>>

-----------------------------------------------------------------------------
(* force_callback *)

\* Faulty variant of force_callback: a timestamp equal to the last one is
\* not stored again
force_callback_StampIfNew(msg) ==
    /\ control_forces' = Append(control_forces, Abs(msg.data))
    /\ control_timestamps' =
           IF /\ control_timestamps # <<>>
              /\ control_timestamps[Len(control_timestamps)] = simulation_time
           THEN control_timestamps
           ELSE Append(control_timestamps, simulation_time)
    /\ log' = <<>>
    /\ fault' = "none"
    /\ UNCHANGED <<pole_angles, cart_positions, recovery_times,
                   last_earthquake_time, last_stable_time, simulation_time>>

force_callback(msg) ==
    /\ control_forces' = Append(control_forces, Abs(msg.data))
    /\ control_timestamps' = Append(control_timestamps, simulation_time)
    /\ log' = <<>>
    /\ fault' = "none"
    /\ UNCHANGED <<pole_angles, cart_positions, recovery_times,
                   last_earthquake_time, last_stable_time, simulation_time>>

-----------------------------------------------------------------------------
(* earthquake_callback *)

\* Faulty variant of IsEarthquake: the threshold itself counts
IsEarthquake_Inclusive(data) == Abs(data) >= EarthquakeThreshold

\* abs(msg.data) > 5.0
IsEarthquake(data) == Abs(data) > EarthquakeThreshold

\* Faulty variant of earthquake_callback: a live window is not re-armed
earthquake_callback_KeepFirst(msg) ==
    /\ IF IsEarthquake(msg.data) /\ last_earthquake_time = None
       THEN /\ last_earthquake_time' = Some(simulation_time)
            /\ log' = <<Line("info", "Earthquake detected!", <<>>)>>
       ELSE /\ last_earthquake_time' = last_earthquake_time
            /\ log' = <<>>
    /\ fault' = "none"
    /\ UNCHANGED <<pole_angles, cart_positions, control_forces, recovery_times,
                   control_timestamps, last_stable_time, simulation_time>>

earthquake_callback(msg) ==
    /\ IF IsEarthquake(msg.data)
       THEN /\ last_earthquake_time' = Some(simulation_time)
            /\ log' = <<Line("info", "Earthquake detected!", <<>>)>>
       ELSE /\ last_earthquake_time' = last_earthquake_time
            /\ log' = <<>>
    /\ fault' = "none"
    /\ UNCHANGED <<pole_angles, cart_positions, control_forces, recovery_times,
                   control_timestamps, last_stable_time, simulation_time>>

-----------------------------------------------------------------------------
(* clock_callback *)

\* msg.clock.sec + msg.clock.nanosec * 1e-9, in microseconds
ClockTime(msg) == msg.clock.sec * UsPerSec + msg.clock.nanosec \div NanosPerUs

clock_callback(msg) ==
    /\ simulation_time' = ClockTime(msg)
    /\ log' = <<>>
    /\ fault' = "none"
    /\ UNCHANGED <<pole_angles, cart_positions, control_forces, recovery_times,
                   control_timestamps, last_earthquake_time, last_stable_time>>

-----------------------------------------------------------------------------
(* compute_metrics *)

\* Faulty variant of NotEnoughData: the guard one sample short
NotEnoughData_OneShort ==
    \/ Len(pole_angles) < MinSamples - 1
    \/ Len(cart_positions) < MinSamples - 1
    \/ Len(control_forces) < MinSamples - 1

NotEnoughData ==
    \/ Len(pole_angles) < MinSamples
    \/ Len(cart_positions) < MinSamples
    \/ Len(control_forces) < MinSamples

max_pole_angle_dev == SeqMax(pole_angles)

rms_cart_position == Sqrt(Mean(Square(cart_positions)))

\* Faulty variant of peak_force: the latest force, not the largest
peak_force_Latest == control_forces[Len(control_forces)]

peak_force == SeqMax(control_forces)

avg_recovery_time ==
    IF recovery_times # <<>> THEN Some(Mean(recovery_times)) ELSE None

control_intervals == Diff(control_timestamps)

avg_control_rate ==
    IF Len(control_timestamps) > 1
    THEN Some(Inverse(Mean(control_intervals)))
    ELSE None

\* Faulty variant of control_rate_status: the band taken without its ends
control_rate_status_Strict ==
    IF Len(control_timestamps) > 1
    THEN IF /\ ~QLeq(Over(avg_control_rate[1], RateDivisor), RateLow)
            /\ ~LeqQ(RateHigh, Over(avg_control_rate[1], RateDivisor))
         THEN "Meets 50Hz"
         ELSE "Outside 50Hz range"
    ELSE "Not enough data to compute"

control_rate_status ==
    IF Len(control_timestamps) > 1
    THEN IF /\ LeqQ(RateLow, Over(avg_control_rate[1], RateDivisor))
            /\ QLeq(Over(avg_control_rate[1], RateDivisor), RateHigh)
         THEN "Meets 50Hz"
         ELSE "Outside 50Hz range"
    ELSE "Not enough data to compute"

\* Faulty variant of efficiency_percentage: the clamp left out
efficiency_percentage_Unclamped ==
    ((max_allowed_force - peak_force) * 100) \div max_allowed_force

\* (1 - (peak_force / max_allowed_force)) * 100, then clamped to 0..100
efficiency_percentage ==
    LET raw == ((max_allowed_force - peak_force) * 100) \div max_allowed_force
    IN  Max2(0, Min2(raw, 100))

RecoveryLine ==
    IF avg_recovery_time # None
    THEN Line("info", "Average Recovery Time",
              <<avg_recovery_time[1].num, avg_recovery_time[1].den>>)
    ELSE Line("info", "No recovery data recorded", <<>>)

\* the six lines logged before the control-rate line
ReportHead ==
    << Line("info", "Performance Metrics", <<>>),
       Line("info", "Max Pole Angle Deviation", <<max_pole_angle_dev>>),
       Line("info", "RMS Cart Position Error", <<rms_cart_position>>),
       Line("info", "Peak Control Force Used", <<peak_force>>),
       Line("info", "Control Effort Efficiency", <<efficiency_percentage>>),
       RecoveryLine >>

\* the last line, showing avg_control_rate/4 and the status; evaluating it
\* raises TypeError when avg_control_rate is None
RateLine ==
    LET shown == Over(avg_control_rate[1], RateDivisor)
    IN  [level |-> "info", text |-> "Control Rate",
         args |-> <<shown.num, shown.den>>, status |-> control_rate_status]

\* Faulty variant of compute_metrics: the control series start afresh after
\* each report
compute_metrics_Clearing ==
    IF NotEnoughData
    THEN /\ log' = <<Line("warn", "Not enough data collected yet!", <<>>)>>
         /\ fault' = "none"
         /\ UNCHANGED store
    ELSE /\ IF avg_control_rate = None
            THEN /\ log' = ReportHead
                 /\ fault' = "TypeError"
            ELSE /\ log' = Append(ReportHead, RateLine)
                 /\ fault' = "none"
         /\ control_forces' = <<>>
         /\ control_timestamps' = <<>>
         /\ UNCHANGED <<pole_angles, cart_positions, recovery_times,
                        last_earthquake_time, last_stable_time, simulation_time>>

compute_metrics ==
    IF NotEnoughData
    THEN /\ log' = <<Line("warn", "Not enough data collected yet!", <<>>)>>
         /\ fault' = "none"
         /\ UNCHANGED store
    ELSE /\ IF avg_control_rate = None
            THEN /\ log' = ReportHead
                 /\ fault' = "TypeError"
            ELSE /\ log' = Append(ReportHead, RateLine)
                 /\ fault' = "none"
         /\ UNCHANGED store

-----------------------------------------------------------------------------
(* rclpy.spin: one callback at a time, until an exception escapes one *)

Running == fault = "none"

(* What the observer sees of a message, in the terms of the specification: *)
(* a disturbance exceeds 5.0 in magnitude; a settling update carries both  *)
(* required channels and a cart speed under 0.05.                          *)
Disturbing(msg) == msg.data > 5 \/ msg.data < -5

CartSpeed(msg) ==
    LET v == msg.velocity[CHOOSE i \in 1..Len(msg.name) :
                              msg.name[i] = "cart_to_base"]
    IN  IF v < 0 THEN -v ELSE v

Valid(msg) ==
    /\ \E i \in 1..Len(msg.name) : msg.name[i] = "cart_to_base"
    /\ \E i \in 1..Len(msg.name) : msg.name[i] = "pole_joint"

Settling(msg) == Valid(msg) /\ CartSpeed(msg) < 5

DispatchJointState(msgs, cap) ==
    \E msg \in msgs :
        /\ Running
        /\ Valid(msg) => Len(cart_positions) < cap
        /\ ev' = "joint_state"
        /\ settled' = (settled \/ Settling(msg))
        /\ UNCHANGED <<quake_count, window_quakes, reports, frames>>
        /\ joint_state_callback(msg)

DispatchForce(msgs, cap) ==
    \E msg \in msgs :
        /\ Running
        /\ Len(control_forces) < cap
        /\ ev' = "force"
        /\ UNCHANGED <<observer, frames>>
        /\ force_callback(msg)

DispatchEarthquake(msgs) ==
    \E msg \in msgs :
        /\ Running
        /\ Disturbing(msg) => quake_count < MaxQuakes
        /\ ev' = "earthquake"
        /\ IF Disturbing(msg)
           THEN /\ quake_count' = quake_count + 1
                /\ window_quakes' =
                       IF settled THEN <<simulation_time>>
                       ELSE Append(window_quakes, simulation_time)
                /\ settled' = FALSE
                /\ UNCHANGED reports
           ELSE UNCHANGED observer
        /\ UNCHANGED frames
        /\ earthquake_callback(msg)

DispatchClock(msgs) ==
    \E msg \in msgs :
        /\ Running
        /\ ev' = "clock"
        /\ UNCHANGED <<observer, frames>>
        /\ clock_callback(msg)

\* the observer's note of a report just logged
ReportNoted ==
    reports' =
        IF Logged("Performance Metrics")'
        THEN LET figures ==
                     [ angle |-> LineOf("Max Pole Angle Deviation")'.args[1],
                       force |-> LineOf("Peak Control Force Used")'.args[1],
                       efficiency |->
                           LineOf("Control Effort Efficiency")'.args[1] ]
             IN  IF reports = <<>> THEN <<figures>>
                 ELSE <<reports[Len(reports)], figures>>
        ELSE reports

Timer ==
    /\ Running
    /\ ev' = "timer"
    /\ UNCHANGED <<quake_count, window_quakes, settled, frames>>
    /\ compute_metrics
    /\ ReportNoted

-----------------------------------------------------------------------------
(* rclpy.spin, statement by statement.  The node is spun on the default    *)
(* single-threaded executor and its subscriptions and timer are created in *)
(* the node's default callback group, so a callback is entered only when   *)
(* none is in progress.  A frame holds the callback's kind, its message,   *)
(* the source line it is at (pc) and the local recovery_time.              *)

\* Faulty variant of Idle: a callback may be entered while one is in progress
Idle_Reentrant == Len(frames) < 2

Idle == frames = <<>>

Frame(kind, msg, pc) ==
    [kind |-> kind, msg |-> msg, pc |-> pc, recovery_time |-> None]

Enter(kind, msg, pc) ==
    /\ Running
    /\ Idle
    /\ ev' = kind
    /\ frames' = Append(frames, Frame(kind, msg, pc))
    /\ log' = <<>>
    /\ UNCHANGED <<store, fault>>

Goto(i, pc) == frames' = [frames EXCEPT ![i].pc = pc]

Return(i) ==
    frames' = [j \in 1..(Len(frames) - 1) |->
                  IF j < i THEN frames[j] ELSE frames[j + 1]]

EnterJointState(msgs, cap) ==
    \E msg \in msgs :
        /\ Valid(msg) => Len(cart_positions) < cap
        /\ settled' = (settled \/ Settling(msg))
        /\ UNCHANGED <<quake_count, window_quakes, reports>>
        /\ Enter("joint_state", msg, 46)

EnterForce(msgs, cap) ==
    \E msg \in msgs :
        /\ Len(control_forces) < cap
        /\ UNCHANGED observer
        /\ Enter("force", msg, 76)

EnterEarthquake(msgs) ==
    \E msg \in msgs :
        /\ Disturbing(msg) => quake_count < MaxQuakes
        /\ IF Disturbing(msg)
           THEN /\ quake_count' = quake_count + 1
                /\ window_quakes' =
                       IF settled THEN <<simulation_time>>
                       ELSE Append(window_quakes, simulation_time)
                /\ settled' = FALSE
                /\ UNCHANGED reports
           ELSE UNCHANGED observer
        /\ Enter("earthquake", msg, 81)

EnterClock(msgs) ==
    \E msg \in msgs :
        /\ UNCHANGED observer
        /\ Enter("clock", msg, 87)

EnterTimer ==
    /\ UNCHANGED observer
    /\ Enter("timer", <<>>, 91)

\* the statement of joint_state_callback at line pc of frame i
JointStateStatement(i) ==
    LET msg == frames[i].msg
        pc == frames[i].pc
        cart_idx == Index(msg.name, "cart_to_base")
        pole_idx == Index(msg.name, "pole_joint")
        cart_pos == msg.position[cart_idx]
        pole_angle == msg.position[pole_idx]
        cart_vel == Abs(msg.velocity[cart_idx])
    IN  CASE pc = 46 ->    \* lines 46-52, and 71-72 on ValueError
                 /\ IF HasJoints(msg)
                    THEN /\ Goto(i, 55)
                         /\ UNCHANGED log
                    ELSE /\ Return(i)
                         /\ log' = Append(log,
                                Line("warn", "Joint names not found", <<>>))
                 /\ UNCHANGED <<store, fault>>
          [] pc = 55 ->
                 /\ pole_angles' = Append(pole_angles, StoredAngle(pole_angle))
                 /\ Goto(i, 56)
                 /\ UNCHANGED <<cart_positions, control_forces, recovery_times,
                                control_timestamps, last_earthquake_time,
                                last_stable_time, simulation_time, log, fault>>
          [] pc = 56 ->
                 /\ cart_positions' = Append(cart_positions, cart_pos)
                 /\ Goto(i, 59)
                 /\ UNCHANGED <<pole_angles, control_forces, recovery_times,
                                control_timestamps, last_earthquake_time,
                                last_stable_time, simulation_time, log, fault>>
          [] pc = 59 ->    \* lines 59-60 and the test of lines 63-64
                 /\ log' = log \o PositionWarning(cart_pos)
                 /\ IF Recovered(cart_vel) THEN Goto(i, 65) ELSE Return(i)
                 /\ UNCHANGED <<store, fault>>
          [] pc = 65 ->    \* lines 65-66; float - None raises TypeError
                 /\ last_stable_time' = Some(simulation_time)
                 /\ IF last_earthquake_time # None
                    THEN /\ frames' = [frames EXCEPT
                                ![i].recovery_time = Some(RecoveryTime),
                                ![i].pc = 67]
                         /\ UNCHANGED fault
                    ELSE /\ Return(i)
                         /\ fault' = "TypeError"
                 /\ UNCHANGED <<pole_angles, cart_positions, control_forces,
                                recovery_times, control_timestamps,
                                last_earthquake_time, simulation_time, log>>
          [] pc = 67 ->
                 /\ recovery_times' =
                        Append(recovery_times, frames[i].recovery_time[1])
                 /\ Goto(i, 68)
                 /\ UNCHANGED <<pole_angles, cart_positions, control_forces,
                                control_timestamps, last_earthquake_time,
                                last_stable_time, simulation_time, log, fault>>
          [] pc = 68 ->    \* lines 68-69
                 /\ last_earthquake_time' = None
                 /\ log' = Append(log, Line("info", "Recovery Time",
                                            <<frames[i].recovery_time[1]>>))
                 /\ Return(i)
                 /\ UNCHANGED <<pole_angles, cart_positions, control_forces,
                                recovery_times, control_timestamps,
                                last_stable_time, simulation_time, fault>>

\* the statement of force_callback at line pc of frame i
ForceStatement(i) ==
    LET msg == frames[i].msg
        pc == frames[i].pc
    IN  CASE pc = 76 ->
                 /\ control_forces' = Append(control_forces, Abs(msg.data))
                 /\ Goto(i, 77)
                 /\ UNCHANGED control_timestamps
          [] pc = 77 ->
                 /\ control_timestamps' =
                        Append(control_timestamps, simulation_time)
                 /\ Return(i)
                 /\ UNCHANGED control_forces

\* one statement of a callback in progress
Statement ==
    \E i \in 1..Len(frames) :
        /\ Running
        /\ UNCHANGED ev
        /\ CASE frames[i].kind = "joint_state" ->
                    /\ JointStateStatement(i)
                    /\ UNCHANGED observer
             [] frames[i].kind = "force" ->
                    /\ ForceStatement(i)
                    /\ UNCHANGED <<pole_angles, cart_positions, recovery_times,
                                   last_earthquake_time, last_stable_time,
                                   simulation_time, log, fault, observer>>
             [] frames[i].kind = "earthquake" ->    \* lines 81-83
                    /\ earthquake_callback(frames[i].msg)
                    /\ Return(i)
                    /\ UNCHANGED observer
             [] frames[i].kind = "clock" ->    \* line 87
                    /\ clock_callback(frames[i].msg)
                    /\ Return(i)
                    /\ UNCHANGED observer
             [] frames[i].kind = "timer" ->    \* lines 91-121
                    /\ compute_metrics
                    /\ Return(i)
                    /\ ReportNoted
                    /\ UNCHANGED <<quake_count, window_quakes, settled>>

-----------------------------------------------------------------------------
(* Messages delivered under Spec: every branch of the four callbacks *)

\* sensor_msgs/JointState: position and velocity are given parallel to name,
\* one entry per joint
JointState(name, position, velocity) ==
    [name |-> name, position |-> position, velocity |-> velocity]

JointStateMsgs ==
    { \* at rest inside the limits, pole angle negative, velocity -0.02
      JointState(<<"cart_to_base", "pole_joint">>, <<0, -2>>, <<-2, 9>>),
      \* moving inside the limits, velocity 0.10
      JointState(<<"cart_to_base", "pole_joint">>, <<0, -2>>, <<10, 0>>),
      \* beyond the position limit, velocity 0.02
      JointState(<<"cart_to_base", "pole_joint">>, <<30, 1>>, <<2, 9>>),
      \* joints in the other order, beyond the limit, velocity exactly 0.05
      JointState(<<"pole_joint", "cart_to_base">>, <<1, 30>>, <<0, 5>>),
      \* a required joint missing
      JointState(<<"cart_to_base">>, <<0>>, <<0>>),
      JointState(<<"pole_joint">>, <<1>>, <<0>>),
      JointState(<<>>, <<>>, <<>>) }

Float64(data) == [data |-> data]

ForceMsgs == { Float64(-300) }

EarthquakeMsgs == { Float64(6), Float64(-6), Float64(5), Float64(0) }

Clock(sec, nanosec) == [clock |-> [sec |-> sec, nanosec |-> nanosec]]

ClockMsgs == { Clock(0, 0), Clock(1, 40000000) }

JointStateStep == DispatchJointState(JointStateMsgs, MaxSamples)
ForceStep == DispatchForce(ForceMsgs, MaxForces)
EarthquakeStep == DispatchEarthquake(EarthquakeMsgs)
ClockStep == DispatchClock(ClockMsgs)

Next ==
    \/ JointStateStep
    \/ ForceStep
    \/ EarthquakeStep
    \/ ClockStep
    \/ Timer

Spec == Init /\ [][Next]_vars

-----------------------------------------------------------------------------
(* Messages delivered under SpecLong: long runs of few kinds of message, so  *)
(* that the three series pass the sample-count guard                        *)

LongJointStateMsgs ==
    { JointState(<<"cart_to_base", "pole_joint">>, <<30, -2>>, <<2, 9>>),
      JointState(<<"pole_joint">>, <<1>>, <<0>>) }

LongForceMsgs == { Float64(-300) }

LongEarthquakeMsgs == { Float64(6) }

LongClockMsgs == { Clock(0, 40000000) }

LongJointStateStep == DispatchJointState(LongJointStateMsgs, MaxLongSamples)
LongForceStep == DispatchForce(LongForceMsgs, MaxLongSamples)
LongEarthquakeStep == DispatchEarthquake(LongEarthquakeMsgs)
LongClockStep == DispatchClock(LongClockMsgs)

NextLong ==
    \/ LongJointStateStep
    \/ LongForceStep
    \/ LongEarthquakeStep
    \/ LongClockStep
    \/ Timer

SpecLong == Init /\ [][NextLong]_vars

-----------------------------------------------------------------------------
(* Messages delivered under SpecTail and SpecRate: the first nine samples  *)
(* of a series come from one kind of message (a warm-up), the samples that *)
(* take the series to the guard of compute_metrics and past it vary.       *)

MaxTail == 2   \* samples that vary, from the tenth on

TailCap == MinSamples - 1 + MaxTail

WarmingUp(series) == Len(series) < MinSamples - 1

WarmJointStateMsgs ==
    { JointState(<<"cart_to_base", "pole_joint">>, <<0, -2>>, <<10, 0>>) }

TailJointStateMsgs ==
    { JointState(<<"cart_to_base", "pole_joint">>, <<30, 1>>, <<2, 9>>),
      JointState(<<"pole_joint", "cart_to_base">>, <<-5, 0>>, <<0, 10>>) }

WarmForceMsgs == { Float64(0) }

\* no force, a moderate one, the assumed maximum itself, one beyond it
TailForceMsgs == { Float64(0), Float64(-100), Float64(250), Float64(-300) }

TailJointStateStep ==
    DispatchJointState(IF WarmingUp(cart_positions) THEN WarmJointStateMsgs
                       ELSE TailJointStateMsgs, TailCap)
TailForceStep ==
    DispatchForce(IF WarmingUp(control_forces) THEN WarmForceMsgs
                  ELSE TailForceMsgs, TailCap)

NextTail ==
    \/ TailJointStateStep
    \/ TailForceStep
    \/ Timer

SpecTail == Init /\ [][NextTail]_vars

\* the clock before the first force command, and from the tenth on: at rest,
\* 40 ms, 56.25 ms, 1 s
FirstClockMsgs == { Clock(0, 56250000) }

RateClockMsgs ==
    { Clock(0, 0), Clock(0, 40000000), Clock(0, 56250000), Clock(1, 0) }

RateForceMsgs == { Float64(-100) }

RateJointStateStep == DispatchJointState(WarmJointStateMsgs, TailCap)
RateForceStep == DispatchForce(RateForceMsgs, TailCap)
RateClockStep ==
    DispatchClock(IF control_forces = <<>> THEN FirstClockMsgs
                  ELSE IF WarmingUp(control_forces) THEN {}
                  ELSE RateClockMsgs)

NextRate ==
    \/ RateJointStateStep
    \/ RateForceStep
    \/ RateClockStep
    \/ Timer

SpecRate == Init /\ [][NextRate]_vars

(* A simulation clock that never runs backwards: /clock messages whose time
   is not before the time already held. *)
MonoClockMsgs == { Clock(0, 0), Clock(0, 40000000), Clock(1, 40000000) }

MonoClockStep ==
    DispatchClock({ msg \in MonoClockMsgs : ClockTime(msg) >= simulation_time })

NextMono ==
    \/ JointStateStep
    \/ EarthquakeStep
    \/ MonoClockStep
    \/ Timer

SpecMono == Init /\ [][NextMono]_vars

(* The callbacks statement by statement: a settling and a dropped
   /joint_states message, a force, a disturbance, a clock reading. *)
StepJointStateMsgs ==
    { JointState(<<"cart_to_base", "pole_joint">>, <<0, -2>>, <<-2, 0>>),
      JointState(<<"cart_to_base">>, <<0>>, <<0>>) }

StepClockMsgs == { Clock(1, 40000000) }

NextSteps ==
    \/ EnterJointState(StepJointStateMsgs, MaxSamples)
    \/ EnterForce(ForceMsgs, MaxForces)
    \/ EnterEarthquake(LongEarthquakeMsgs)
    \/ EnterClock(StepClockMsgs)
    \/ EnterTimer
    \/ Statement

SpecSteps == Init /\ [][NextSteps]_vars

-----------------------------------------------------------------------------
(* Properties *)

\* what a /joint_states message carries for a channel
ChannelPosition(msg, joint) ==
    msg.position[CHOOSE i \in 1..Len(msg.name) : msg.name[i] = joint]

LastOf(s) == s[Len(s)]

Magnitude(x) == IF x >= 0 THEN x ELSE 0 - x

\* s is t, or t with one element added at its end
Extends(s, t) == s = t \/ (Len(s) = Len(t) + 1 /\ SubSeq(s, 1, Len(t)) = t)

\* a periodic report: its heading is logged
Report == Logged("Performance Metrics")

\* C1: whenever the disturbance window is live with start t0, a state update
\* carrying both channels and a cart speed under 0.05, processed at simulation
\* time t1, appends exactly the entry t1 - t0 to the recovery series and
\* leaves the window empty.
C1_RecoveryRecorded ==
    [][\A msg \in JointStateMsgs :
          ( /\ ev' = "joint_state"
            /\ joint_state_callback(msg)
            /\ Settling(msg)
            /\ last_earthquake_time # None )
          => /\ recovery_times' =
                   Append(recovery_times, simulation_time - last_earthquake_time[1])
             /\ last_earthquake_time' = None]_vars

\* a recovery with t1 > t0 has just been recorded
C1_Witness ==
    /\ ev = "joint_state"
    /\ Logged("Recovery Time")
    /\ last_earthquake_time = None
    /\ recovery_times # <<>>
    /\ LastOf(recovery_times) > 0

\* C2: re-arming.  When two or more above-threshold disturbances have been
\* processed with no settling state update between them, whatever else was
\* interleaved, the next settling state update appends exactly one recovery
\* entry: the simulation time minus the simulation time at the last of those
\* disturbances; and no disturbance update records an entry for the window it
\* discards.
C2_Rearmed ==
    [][ /\ \A msg \in JointStateMsgs :
              ( /\ ev' = "joint_state"
                /\ joint_state_callback(msg)
                /\ Settling(msg)
                /\ ~settled
                /\ Len(window_quakes) >= 2 )
              => recovery_times' =
                    Append(recovery_times, simulation_time - LastOf(window_quakes))
        /\ ev' = "earthquake" => recovery_times' = recovery_times ]_vars

\* a recovery has just been recorded for a window re-armed at another time
\* than it was opened: the entry counts from the last disturbance
C2_Witness ==
    /\ ev = "joint_state"
    /\ settled
    /\ Logged("Recovery Time")
    /\ Len(window_quakes) >= 2
    /\ window_quakes[1] # LastOf(window_quakes)
    /\ LastOf(recovery_times) = simulation_time - LastOf(window_quakes)
    /\ LastOf(recovery_times) # simulation_time - window_quakes[1]

\* C3: a state update lacking "cart_to_base" or "pole_joint" leaves the whole
\* store unchanged (the four sample series, the control timestamps, the
\* disturbance window, the simulation time), also with a live window and a low
\* velocity; a warning is its only effect and the node keeps running.
C3_DroppedUpdate ==
    [][\A msg \in JointStateMsgs :
          ( /\ ev' = "joint_state"
            /\ joint_state_callback(msg)
            /\ ~Valid(msg) )
          => /\ UNCHANGED store
             /\ log' = <<Line("warn", "Joint names not found", <<>>)>>
             /\ fault' = "none"]_vars

\* a message has just been dropped while a window is live
C3_Witness ==
    /\ ev = "joint_state"
    /\ Logged("Joint names not found")
    /\ last_earthquake_time # None
    /\ cart_positions # <<>>

\* C4: a state update carrying both channels appends the cart position as it
\* is and the absolute value of the pole angle, one element each; so every
\* stored pole angle is non-negative.
C4_SamplesAppended ==
    /\ [][\A msg \in JointStateMsgs :
             ( /\ ev' = "joint_state"
               /\ joint_state_callback(msg)
               /\ Valid(msg) )
             => /\ cart_positions' =
                      Append(cart_positions, ChannelPosition(msg, "cart_to_base"))
                /\ pole_angles' =
                      Append(pole_angles,
                             Magnitude(ChannelPosition(msg, "pole_joint")))]_vars
    /\ [](\A i \in 1..Len(pole_angles) : pole_angles[i] >= 0)

\* a negative pole angle has just been stored as its magnitude
C4_Witness ==
    /\ ev = "joint_state"
    /\ Len(pole_angles) = 2
    /\ Len(cart_positions) = 2
    /\ LastOf(pole_angles) = 2
    /\ LastOf(cart_positions) = 0

\* C5: the control timestamps are as many as the control forces, the i-th
\* being the simulation time at which the i-th force was appended; only a
\* force update changes either series, by one element each.
C5_TimestampsAligned ==
    /\ [](Len(control_timestamps) = Len(control_forces))
    /\ [][ \/ UNCHANGED <<control_forces, control_timestamps>>
           \/ /\ ev' = "force"
              /\ Len(control_forces') = Len(control_forces) + 1
              /\ SubSeq(control_forces', 1, Len(control_forces)) = control_forces
              /\ control_timestamps' =
                    Append(control_timestamps, simulation_time) ]_vars

\* two forces have been stored under different simulation times
C5_Witness ==
    /\ ev = "force"
    /\ Len(control_forces) = 2
    /\ Len(control_timestamps) = 2
    /\ control_timestamps[1] # control_timestamps[2]
    /\ control_timestamps[2] = simulation_time

\* C6: a periodic trigger that finds fewer than 10 samples in the pole-angle,
\* the cart-position or the control-force series produces no report, only the
\* insufficient-data warning, and leaves the store unchanged.
C6_InsufficientData ==
    [][ ( /\ ev' = "timer"
          /\ \/ Len(pole_angles) < 10
             \/ Len(cart_positions) < 10
             \/ Len(control_forces) < 10 )
        => /\ ~Report'
           /\ log' = <<Line("warn", "Not enough data collected yet!", <<>>)>>
           /\ UNCHANGED store ]_vars

\* the trigger has just refused with two series long enough and the third
\* one sample short
C6_Witness ==
    /\ ev = "timer"
    /\ Logged("Not enough data collected yet!")
    /\ Len(pole_angles) >= 10
    /\ Len(cart_positions) >= 10
    /\ Len(control_forces) = 9

\* every line of a report is logged
FullReport ==
    /\ Logged("Performance Metrics")
    /\ Logged("Max Pole Angle Deviation")
    /\ Logged("RMS Cart Position Error")
    /\ Logged("Peak Control Force Used")
    /\ Logged("Control Effort Efficiency")
    /\ Logged("Average Recovery Time") \/ Logged("No recovery data recorded")
    /\ Logged("Control Rate")
    /\ Len(log) = 7

\* C7: with at least 10 samples in each of the three series a periodic trigger
\* runs to its end and logs the full report, no exception escaping it, whether
\* or not a recovery has been recorded.
C7_ReportProduced ==
    [][ ( /\ ev' = "timer"
          /\ Len(pole_angles) >= 10
          /\ Len(cart_positions) >= 10
          /\ Len(control_forces) >= 10 )
        => /\ FullReport'
           /\ fault' = "none" ]_vars

\* a full report has just been logged with no recovery recorded
C7_Witness ==
    /\ ev = "timer"
    /\ FullReport
    /\ recovery_times = <<>>
    /\ Logged("No recovery data recorded")
    /\ fault = "none"

\* C8: when the trigger passes the sample-count guard and the mean of the
\* consecutive control-timestamp differences is zero, the control rate is
\* reported as absent: no rate is computed by dividing by zero, so no
\* exception escapes and no rate figure, finite or not, is logged.
C8_ZeroIntervalGuarded ==
    [][ ( /\ ev' = "timer"
          /\ Len(pole_angles) >= 10
          /\ Len(cart_positions) >= 10
          /\ Len(control_forces) >= 10
          /\ Len(control_timestamps) >= 2
          /\ SeqSum(Diff(control_timestamps)) = 0 )
        => /\ fault' = "none"
           /\ ~Logged("Control Rate")' ]_vars

\* C9: a disturbance update sets the window start to the simulation time
\* exactly when its magnitude exceeds 5.0 (5.0 itself, or less, changes
\* nothing); in both cases the sample series, the control timestamps and the
\* simulation time stay as they are.
C9_DisturbanceUpdate ==
    [][\A msg \in EarthquakeMsgs :
          ( /\ ev' = "earthquake"
            /\ earthquake_callback(msg) )
          => /\ Disturbing(msg) => last_earthquake_time' = Some(simulation_time)
             /\ ~Disturbing(msg) => UNCHANGED store /\ log' = <<>>
             /\ UNCHANGED <<pole_angles, cart_positions, control_forces,
                            recovery_times, control_timestamps,
                            simulation_time>> ]_vars

\* a disturbance update has just left alone a window opened at another time
C9_Witness ==
    /\ ev = "earthquake"
    /\ log = <<>>
    /\ last_earthquake_time # None
    /\ last_earthquake_time # Some(simulation_time)

\* C10: in every step each of the five series (pole angles, cart positions,
\* control forces, recovery durations, control timestamps) is unchanged or
\* gains one element at its end.
C10_AppendOnly ==
    [][ /\ Extends(pole_angles', pole_angles)
        /\ Extends(cart_positions', cart_positions)
        /\ Extends(control_forces', control_forces)
        /\ Extends(recovery_times', recovery_times)
        /\ Extends(control_timestamps', control_timestamps) ]_vars

\* a second, different recovery has just been added after the first, the
\* other series holding two elements each
C10_Witness ==
    /\ ev = "joint_state"
    /\ Len(recovery_times) = 2
    /\ recovery_times[1] # recovery_times[2]
    /\ Len(cart_positions) = 2
    /\ cart_positions[1] # cart_positions[2]
    /\ Len(control_timestamps) = 2

\* the largest element of a non-empty series
Largest(s) == CHOOSE x \in {s[i] : i \in 1..Len(s)} :
                  \A i \in 1..Len(s) : s[i] <= x

\* the figure a report line shows
Shown(text) == LineOf(text).args[1]

\* C11: a periodic trigger never changes the store (series, disturbance
\* window, simulation time), so a trigger that follows a trigger with no
\* event between them logs what the first logged: no report twice, or the
\* same report line by line.
C11_ReadOnlyTrigger ==
    [][ ev' = "timer"
        => /\ UNCHANGED store
           /\ ev = "timer" => (log' = log /\ fault' = fault) ]_vars

\* a report with an average recovery time has just been logged
C11_Witness ==
    /\ ev = "timer"
    /\ FullReport
    /\ Logged("Average Recovery Time")
    /\ Len(control_forces) > 10

\* C12: the efficiency of every report lies in 0..100; it is 100 when the
\* largest control force is 0, and 0, never negative, when the largest
\* control force is 250 or more.
C12_EfficiencyBounds ==
    (ev = "timer" /\ Report)
    => /\ Shown("Control Effort Efficiency") >= 0
       /\ Shown("Control Effort Efficiency") <= 100
       /\ Largest(control_forces) = 0
             => Shown("Control Effort Efficiency") = 100
       /\ Largest(control_forces) >= 250
             => Shown("Control Effort Efficiency") = 0

\* a report for a peak force beyond the assumed maximum shows 0
C12_Witness ==
    /\ ev = "timer"
    /\ Report
    /\ Largest(control_forces) = 300
    /\ Shown("Control Effort Efficiency") = 0

\* C13: the recovery machine starts idle.  A disturbance above the threshold
\* makes it disturbed (or re-arms it), a valid state update with a cart speed
\* under 0.05 makes it idle, and nothing else changes the window: force and
\* clock updates, periodic triggers, disturbances at or under the threshold,
\* dropped state updates and valid ones with a speed of 0.05 or more leave a
\* live window live with its start time, however long it has been live.
C13_RecoveryMachine ==
    /\ last_earthquake_time = None
    /\ [][ /\ ev' \in {"force", "clock", "timer"}
                => last_earthquake_time' = last_earthquake_time
           /\ \A msg \in EarthquakeMsgs :
                (ev' = "earthquake" /\ earthquake_callback(msg))
                => IF Disturbing(msg)
                   THEN last_earthquake_time' # None
                   ELSE last_earthquake_time' = last_earthquake_time
           /\ \A msg \in JointStateMsgs :
                (ev' = "joint_state" /\ joint_state_callback(msg))
                => IF Settling(msg)
                   THEN last_earthquake_time' = None
                   ELSE last_earthquake_time' = last_earthquake_time ]_vars

\* a valid state update at a speed of 0.05 or more (the one beyond the
\* position limit) has just left alone a window opened at an earlier time
C13_Witness ==
    /\ ev = "joint_state"
    /\ log = <<Line("warn", "Cart exceeded position limit", <<30>>)>>
    /\ last_earthquake_time # None
    /\ last_earthquake_time[1] < simulation_time
    /\ recovery_times = <<>>
    /\ ~settled

\* C15: a valid state update with a cart position beyond 2.5 in magnitude
\* still stores its position and its angle and changes nothing else for the
\* violation; with a live window and a cart speed under 0.05 the recovery is
\* recorded on that same update as for a position within the limit.
C15_BoundaryObservationOnly ==
    [][\A msg \in JointStateMsgs :
          ( /\ ev' = "joint_state"
            /\ joint_state_callback(msg)
            /\ Valid(msg)
            /\ Magnitude(ChannelPosition(msg, "cart_to_base")) > 25 )
          => /\ cart_positions' =
                   Append(cart_positions, ChannelPosition(msg, "cart_to_base"))
             /\ Len(pole_angles') = Len(pole_angles) + 1
             /\ UNCHANGED <<control_forces, control_timestamps, simulation_time>>
             /\ fault' = "none"
             /\ IF last_earthquake_time # None /\ CartSpeed(msg) < 5
                THEN /\ recovery_times' =
                           Append(recovery_times,
                                  simulation_time - last_earthquake_time[1])
                     /\ last_earthquake_time' = None
                ELSE UNCHANGED <<recovery_times, last_earthquake_time,
                                 last_stable_time>> ]_vars

\* a recovery has just been recorded on an update beyond the position limit
C15_Witness ==
    /\ ev = "joint_state"
    /\ Logged("Cart exceeded position limit")
    /\ Logged("Recovery Time")
    /\ LastOf(cart_positions) = 30
    /\ last_earthquake_time = None

\* C18: the recoveries recorded, plus one for a live window, never exceed the
\* above-threshold disturbances delivered; a recovery is appended only while
\* the window is live, and a valid low-speed update with no live window
\* appends none.
C18_RecoveriesBounded ==
    /\ [](Len(recovery_times) + (IF last_earthquake_time # None THEN 1 ELSE 0)
            <= quake_count)
    /\ [][ /\ recovery_times' # recovery_times => last_earthquake_time # None
           /\ \A msg \in JointStateMsgs :
                ( /\ ev' = "joint_state"
                  /\ joint_state_callback(msg)
                  /\ Settling(msg)
                  /\ last_earthquake_time = None )
                => recovery_times' = recovery_times ]_vars

\* the one disturbance delivered has been recovered from, and a valid update
\* has then come with no window live
C18_Witness ==
    /\ ev = "joint_state"
    /\ quake_count = 1
    /\ Len(recovery_times) = 1
    /\ Len(cart_positions) = 2
    /\ last_earthquake_time = None
    /\ ~Logged("Recovery Time")
    /\ ~Logged("Joint names not found")

RECURSIVE GCD(_, _)
GCD(a, b) == IF b = 0 THEN a ELSE GCD(b, a % b)

\* the fraction a / b in lowest terms over a positive denominator (b # 0)
Lowest(a, b) ==
    LET g == GCD(Magnitude(a), Magnitude(b))
        s == IF b < 0 THEN -1 ELSE 1
    IN  <<s * (a \div g), s * (b \div g)>>

\* C16: for control timestamps t_1..t_n, n >= 2, t_n other than t_1, the rate
\* a report shows is (n - 1) / (t_n - t_1) divided by 4, whatever the
\* timestamps between, and the status is "Meets 50Hz" exactly when that
\* figure lies between 40 and 70, both included.  (Timestamps in
\* microseconds: 1000000 to the second.)
C16_ControlRate ==
    ( /\ ev = "timer"
      /\ Report
      /\ Len(control_timestamps) >= 2
      /\ LastOf(control_timestamps) # control_timestamps[1] )
    => LET n == Len(control_timestamps)
           dt == LastOf(control_timestamps) - control_timestamps[1]
           rate == LineOf("Control Rate")
       IN  /\ rate.args[2] # 0
           /\ Lowest(rate.args[1], rate.args[2])
                = Lowest((n - 1) * 1000000, 4 * dt)
           /\ rate.status = "Meets 50Hz"
                <=> /\ dt > 0
                    /\ 40 * 4 * dt <= (n - 1) * 1000000
                    /\ (n - 1) * 1000000 <= 70 * 4 * dt

\* ten timestamps spanning 56.25 ms: 160 per second, shown as 40, in the band
C16_Witness ==
    /\ ev = "timer"
    /\ Report
    /\ Len(control_timestamps) = 10
    /\ LastOf(control_timestamps) - control_timestamps[1] = 56250
    /\ LineOf("Control Rate").status = "Meets 50Hz"

\* C17: whenever the three series hold 10 samples or more, so do the control
\* timestamps; hence every report carries a computed control rate, the
\* "not enough data" status never shows, and no TypeError comes of dividing
\* None by 4.
C17_RateBranchUnreachable ==
    /\ ( /\ Len(pole_angles) >= 10
         /\ Len(cart_positions) >= 10
         /\ Len(control_forces) >= 10 )
       => Len(control_timestamps) >= 10
    /\ fault = "none"
    /\ (ev = "timer" /\ Report)
       => /\ Logged("Control Rate")
          /\ LineOf("Control Rate").status # "Not enough data to compute"

\* a report has just been logged from exactly ten timestamps
C17_Witness ==
    /\ ev = "timer"
    /\ Report
    /\ Len(control_timestamps) = 10
    /\ Len(control_forces) = 10
    /\ Logged("Control Rate")

\* C19: while the clock values received never decrease (and are not
\* negative), a live disturbance window starts no later than the simulation
\* time held, and no recovery time recorded is negative; a recovery time of
\* exactly 0 is recorded when no clock message comes between the disturbance
\* and the update that settles it.
C19_NonNegativeRecovery ==
    /\ simulation_time >= 0
    /\ last_earthquake_time # <<>> => last_earthquake_time[1] <= simulation_time
    /\ \A i \in 1..Len(recovery_times) : recovery_times[i] >= 0

\* a recovery of 0 recorded after the clock had advanced, and then a longer one
C19_Witness ==
    /\ Len(recovery_times) = 2
    /\ recovery_times[1] = 0
    /\ recovery_times[2] > 0
    /\ simulation_time > 0

\* C20: once a periodic trigger has logged a report, every later periodic
\* trigger logs one too; and of two successive reports, whatever events came
\* between them, the later shows a maximum pole angle and a peak force no
\* smaller, and an efficiency no larger.
C20_ReportsMonotone ==
    /\ [](Len(reports) = 2
            => /\ reports[2].angle >= reports[1].angle
               /\ reports[2].force >= reports[1].force
               /\ reports[2].efficiency <= reports[1].efficiency)
    /\ [][(ev' = "timer" /\ reports # <<>>) => Report']_vars

\* a second report just logged, after samples that raised the largest angle
\* and the largest force
C20_Witness ==
    /\ ev = "timer"
    /\ Report
    /\ Len(reports) = 2
    /\ reports[2].angle > reports[1].angle
    /\ reports[2].force > reports[1].force
    /\ reports[2].efficiency < reports[1].efficiency
    /\ Shown("Peak Control Force Used") = reports[2].force

\* what every completed callback leaves: a timestamp for each force, an
\* angle for each position, and a live window exactly while a disturbance
\* awaits a settling update
Consistent ==
    /\ Len(control_forces) = Len(control_timestamps)
    /\ Len(cart_positions) = Len(pole_angles)
    /\ settled <=> last_earthquake_time = None

====
